---- MODULE Spec2Model ----
(***************************************************************************)
(* rustvalidity: the rule registry (Validator), the error model            *)
(* (ValidationError), the built-in rules and the validation pass that the  *)
(* derive macro (rustvalidity-derive) generates for a struct.              *)
(*                                                                         *)
(* Strings are sequences of one-character strings, so that emptiness,      *)
(* length and the e-mail pattern are computed and not assumed.  An f64 is  *)
(* its value in hundredths (29.99 is 2999).  The generated code calls      *)
(* `.validate(..)` on the looked-up rule; the Rule trait's only method is  *)
(* validate_any, which is what that call is modelled as.                   *)
(***************************************************************************)
EXTENDS Integers, Sequences, FiniteSets, TLC

VARIABLES
    struct,     \* the struct the derive macro is applied to: its fields with attributes and values
    pc,         \* "source" | "compiled" | "rejected" | "run" | "done" | "panicked" | "api"
    plan,       \* the statements the macro generated for validate(), in order
    ip,         \* index of the next generated statement
    validator,  \* a Validator: [rules |-> the HashMap name -> rule]
    errors,     \* validate()'s local HashMap field -> Vec<String>
    result,     \* what validate() returned: NoResult, OkResult or [tag |-> "Err", err |-> ...]
    log,        \* history: one entry per executed check statement
    lastAdded,  \* history: name -> the rule most recently passed to add_rule
    got,        \* the last get_rule call through the API: its name, its result, and (history)
                \* the rule most recently added under that name when it was made
    ev,         \* the two error models at hand: ev.a and ev.b
    mlast,      \* [done, out]: out is merge(ev.a, ev.b) once done
    call,       \* a rule applied on its own: [rule, value]
    evals,      \* history: the wrapped-rule evaluations a combinator made, in order
    ret,        \* what call.rule.validate_any(call.value) returned
    rendered,   \* format!("{}", err) of the pass's Err: [order, lines]
    passes      \* two validate() calls on two threads: passes[t] is thread t's frame

vars == <<struct, pc, plan, ip, validator, errors, result, log, lastAdded, got, ev, mlast,
          call, evals, ret, rendered, passes>>

(***************************************************************************)
(* Bounds of the model.                                                    *)
(***************************************************************************)
MaxDecls == 2       \* declarations on one struct, over all its fields
MaxMsgs == 2        \* messages held by an operand of merge

(***************************************************************************)
(* Characters and strings.                                                 *)
(***************************************************************************)
Lower == {"a","b","c","d","e","f","g","h","i","j","k","l","m",
          "n","o","p","q","r","s","t","u","v","w","x","y","z"}
Upper == {"A","B","C","D","E","F","G","H","I","J","K","L","M",
          "N","O","P","Q","R","S","T","U","V","W","X","Y","Z"}
Digit == {"0","1","2","3","4","5","6","7","8","9"}
Letter == Lower \cup Upper

EmailLocalChar == Letter \cup Digit \cup {".", "_", "%", "+", "-"}
EmailDomainChar == Letter \cup Digit \cup {".", "-"}

AllIn(s, lo, hi, S) == \A k \in lo..hi : s[k] \in S

\* ^[a-zA-Z0-9._%+-]+@[a-zA-Z0-9.-]+\.[a-zA-Z]{2,}$
email_regex_is_match(s) ==
    \E i \in 1..Len(s) : \E j \in 1..Len(s) :
        /\ 1 < i /\ s[i] = "@" /\ AllIn(s, 1, i - 1, EmailLocalChar)
        /\ i + 1 < j /\ s[j] = "." /\ AllIn(s, i + 1, j - 1, EmailDomainChar)
        /\ Len(s) - j >= 2 /\ AllIn(s, j + 1, Len(s), Letter)

(***************************************************************************)
(* Values behind `&dyn Any`: the concrete type and the value.              *)
(***************************************************************************)
StringVal(s) == [ty |-> "String", s |-> s]
I32Val(n) == [ty |-> "i32", n |-> n]
F64Val(h) == [ty |-> "f64", n |-> h]
BoolVal(b) == [ty |-> "bool", b |-> b]
StrRefVal(s) == [ty |-> "&str", s |-> s]
\* o is None or Some(s)
OptionStringVal(o) ==
    [ty |-> "Option<String>", some |-> o.some, s |-> IF o.some THEN o.val ELSE <<>>]
\* a Vec is the sequence of its elements, each a value of the element type
VecStringVal(items) == [ty |-> "Vec<String>", items |-> items]
VecI32Val(items) == [ty |-> "Vec<i32>", items |-> items]
\* a HashMap is its entries [key, val] in the order its iterator hands them out
HashMapStringStringVal(entries) == [ty |-> "HashMap<String, String>", entries |-> entries]
HashMapStringI32Val(entries) == [ty |-> "HashMap<String, i32>", entries |-> entries]

\* value.downcast_ref::<T>() is Some exactly when the concrete type is T
downcast_is(value, T) == value.ty = T

\* the text `{}` prints for a String
RECURSIVE to_string(_)
to_string(s) == IF Len(s) = 0 THEN "" ELSE s[1] \o to_string(Tail(s))

(***************************************************************************)
(* ValidationError and the results of a rule.                              *)
(***************************************************************************)
Single(msg) == [shape |-> "Single", msg |-> msg]
Multiple(errs) == [shape |-> "Multiple", errors |-> errs]

ValidationError_new(msg) == Single(msg)

RuleOk == [ok |-> TRUE, err |-> Single("")]
RuleErr(msg) == [ok |-> FALSE, err |-> ValidationError_new(msg)]
\* the rule did not return: the thread panicked inside validate_any
RulePanic == [ok |-> FALSE, err |-> [shape |-> "Panic"]]

EmptyMap == [k \in {} |-> <<>>]

\* map.entry(key).or_insert_with(Vec::new).push(msg); the first form forgets the other keys
entry_push_forget_others(map, key, msg) ==
    [k \in {key} |-> IF key \in DOMAIN map THEN Append(map[key], msg) ELSE <<msg>>]
entry_push(map, key, msg) ==
    [k \in DOMAIN map \cup {key} |->
        IF k = key THEN (IF key \in DOMAIN map THEN Append(map[key], msg) ELSE <<msg>>)
        ELSE map[k]]

\* map.entry(key).or_insert_with(Vec::new).extend(messages)
entry_extend_replace(map, key, messages) ==
    [k \in DOMAIN map \cup {key} |-> IF k = key THEN messages ELSE map[k]]
entry_extend(map, key, messages) ==
    [k \in DOMAIN map \cup {key} |->
        IF k = key THEN (IF key \in DOMAIN map THEN map[key] \o messages ELSE messages)
        ELSE map[k]]

ValidationError_field(field, message) ==
    Multiple(entry_extend(EmptyMap, field, <<message>>))

\* for (field, messages) in errs2 { errs1.entry(field).or_insert_with(Vec::new).extend(messages) }
\* the HashMap hands out its entries in an order of its own: `todo` is what is left
\* the first form takes one entry of errs2 and leaves the loop
merge_loop_one_entry(errs1, errs2, todo) ==
    IF todo = {} THEN errs1
    ELSE LET field == CHOOSE f \in todo : TRUE
         IN entry_extend(errs1, field, errs2[field])
RECURSIVE merge_loop(_, _, _)
merge_loop(errs1, errs2, todo) ==
    IF todo = {} THEN errs1
    ELSE LET field == CHOOSE f \in todo : TRUE
         IN merge_loop(entry_extend(errs1, field, errs2[field]), errs2, todo \ {field})

merge_single_single_first_only(msg1, msg2) ==
    Multiple(entry_extend(EmptyMap, "_", <<msg1>>))
merge_single_single(msg1, msg2) ==
    Multiple(entry_extend(EmptyMap, "_", <<msg1, msg2>>))

ValidationError_merge(self, other) ==
    CASE self.shape = "Single" /\ other.shape = "Single" ->
            merge_single_single(self.msg, other.msg)
      [] self.shape = "Single" /\ other.shape = "Multiple" ->
            Multiple(entry_push(other.errors, "_", self.msg))
      [] self.shape = "Multiple" /\ other.shape = "Single" ->
            Multiple(entry_push(self.errors, "_", other.msg))
      [] self.shape = "Multiple" /\ other.shape = "Multiple" ->
            Multiple(merge_loop(self.errors, other.errors, DOMAIN other.errors))

\* format!("{}", err) of a single-message error
Display_single(err) == err.msg

\* the orders in which a HashMap with the keys S may hand out its entries
Orders(S) ==
    { o \in [1..Cardinality(S) -> S] : \A i \in DOMAIN o : \A j \in DOMAIN o : i # j => o[i] # o[j] }

\* for msg in messages { writeln!(f, "  {}: {}", field, msg) }
Display_messages(field, messages) ==
    [k \in 1..Len(messages) |-> "  " \o field \o ": " \o messages[k]]

\* for (field, messages) in errors, the map iterating in `order`
RECURSIVE Display_fields(_, _, _)
Display_fields(errs, order, k) ==
    IF k > Len(order) THEN <<>>
    ELSE Display_messages(order[k], errs[order[k]]) \o Display_fields(errs, order, k + 1)

\* Display::fmt: the lines written
Display(err, order) ==
    IF err.shape = "Single" THEN <<err.msg>>
    ELSE <<"Validation errors:">> \o Display_fields(err.errors, order, 1)

(***************************************************************************)
(* Rules (src/rules).  A rule is a record of its kind and its parameters.  *)
(***************************************************************************)
None == [some |-> FALSE, val |-> 0]
Some(v) == [some |-> TRUE, val |-> v]

Required == [kind |-> "Required"]
Length(min, max) == [kind |-> "Length", min |-> min, max |-> max]
Email(check_dns) == [kind |-> "Email", check_dns |-> check_dns]
Url(allowed_schemes) == [kind |-> "Url", allowed_schemes |-> allowed_schemes]
Uuid == [kind |-> "Uuid"]
Json == [kind |-> "Json"]
Phone(allow_empty) == [kind |-> "Phone", allow_empty |-> allow_empty]
Unique == [kind |-> "Unique"]
Positive == [kind |-> "Positive"]
Negative == [kind |-> "Negative"]
\* Min<T>, Max<T>, Range<T>: T is the type of the parameter
Min(T, value) == [kind |-> "Min", T |-> T, value |-> value]
Max(T, value) == [kind |-> "Max", T |-> T, value |-> value]
Range(T, min, max) == [kind |-> "Range", T |-> T, min |-> min, max |-> max]
\* DivisibleBy<i32>
DivisibleBy(divisor) == [kind |-> "DivisibleBy", divisor |-> divisor]
\* Each<R>: the wrapped rule
Each(rule) == [kind |-> "Each", rule |-> rule]
\* Map: key_rule and value_rule are NoneRule or Some(rule)
NoneRule == [some |-> FALSE, val |-> [kind |-> "None"]]
Map(key_rule, value_rule) == [kind |-> "Map", key_rule |-> key_rule, value_rule |-> value_rule]
\* a closure of a required-if rule is what it returns when the rule calls it
RequiredIf(condition) == [kind |-> "RequiredIf", condition |-> condition]
RequiredWith(other_field, expected_value) ==
    [kind |-> "RequiredWith", other_field |-> other_field, expected_value |-> expected_value]
RequiredWithout(other_field, expected_value) ==
    [kind |-> "RequiredWithout", other_field |-> other_field, expected_value |-> expected_value]
RequiredIfAny(conditions) == [kind |-> "RequiredIfAny", conditions |-> conditions]
RequiredIfAll(conditions) == [kind |-> "RequiredIfAll", conditions |-> conditions]
If(condition, then) == [kind |-> "If", condition |-> condition, then |-> then]
Unless(condition, then) == [kind |-> "Unless", condition |-> condition, then |-> then]

IsEmptyRequired(value) ==
    \/ downcast_is(value, "String") /\ Len(value.s) = 0
    \/ downcast_is(value, "&str") /\ Len(value.s) = 0
    \/ downcast_is(value, "Option<String>") /\ ~value.some
    \/ downcast_is(value, "Vec<String>") /\ Len(value.items) = 0

Required_validate_any(value) ==
    IF IsEmptyRequired(value) THEN RuleErr("Value is required") ELSE RuleOk

\* the first form has no lower bound
Length_check_no_min(len, rule, tooShort, tooLong, suffix) ==
    IF rule.max.some /\ len > rule.max.val
    THEN RuleErr(tooLong \o ToString(rule.max.val) \o suffix)
    ELSE RuleOk
Length_check(len, rule, tooShort, tooLong, suffix) ==
    IF len < rule.min THEN RuleErr(tooShort \o ToString(rule.min) \o suffix)
    ELSE IF rule.max.some /\ len > rule.max.val
         THEN RuleErr(tooLong \o ToString(rule.max.val) \o suffix)
         ELSE RuleOk

Length_validate_any(rule, value) ==
    IF downcast_is(value, "String") \/ downcast_is(value, "&str")
    THEN Length_check(Len(value.s), rule,
                      "Length must be at least ", "Length must not exceed ", "")
    ELSE IF downcast_is(value, "Vec<String>")
         THEN Length_check(Len(value.items), rule,
                           "Collection must have at least ",
                           "Collection must not exceed ", " items")
         ELSE RuleErr("Value must be a string or collection")

validate_email(email, check_dns) ==
    IF ~email_regex_is_match(email) THEN RuleErr("Invalid email format") ELSE RuleOk

Email_validate_any(rule, value) ==
    IF downcast_is(value, "String") \/ downcast_is(value, "&str")
    THEN validate_email(value.s, rule.check_dns)
    ELSE RuleErr("Value must be a string")

SignedTypes == {"i8", "i16", "i32", "i64", "f32", "f64"}
UnsignedTypes == {"u8", "u16", "u32", "u64", "usize"}

Positive_validate_any(value) ==
    IF value.ty \in SignedTypes
    THEN (IF value.n <= 0 THEN RuleErr("Value must be positive") ELSE RuleOk)
    ELSE IF value.ty \in UnsignedTypes
         THEN (IF value.n = 0 THEN RuleErr("Value must be positive") ELSE RuleOk)
         ELSE RuleErr("Value is not a numeric type")

Negative_validate_any(value) ==
    IF value.ty \in SignedTypes
    THEN (IF value.n >= 0 THEN RuleErr("Value must be negative") ELSE RuleOk)
    ELSE RuleErr("Value is not a signed numeric type")

Min_validate_any(rule, value) ==
    IF downcast_is(value, rule.T)
    THEN (IF value.n < rule.value
          THEN RuleErr("Value must be greater than or equal to " \o ToString(rule.value))
          ELSE RuleOk)
    ELSE RuleErr("Value is not of the expected numeric type")

Max_validate_any(rule, value) ==
    IF downcast_is(value, rule.T)
    THEN (IF value.n > rule.value
          THEN RuleErr("Value must be less than or equal to " \o ToString(rule.value))
          ELSE RuleOk)
    ELSE RuleErr("Value is not of the expected numeric type")

Range_validate_any(rule, value) ==
    IF downcast_is(value, rule.T)
    THEN (IF value.n < rule.min
          THEN RuleErr("Value must be greater than or equal to " \o ToString(rule.min))
          ELSE IF value.n > rule.max
               THEN RuleErr("Value must be less than or equal to " \o ToString(rule.max))
               ELSE RuleOk)
    ELSE RuleErr("Value is not of the expected numeric type")

\* the emptiness check every required-if rule carries in its own body
required_check_skips_option(value) ==
    IF downcast_is(value, "String") \/ downcast_is(value, "&str")
    THEN (IF Len(value.s) = 0 THEN RuleErr("Value is required") ELSE RuleOk)
    ELSE IF downcast_is(value, "Vec<String>")
         THEN (IF Len(value.items) = 0 THEN RuleErr("Value is required") ELSE RuleOk)
         ELSE RuleOk
required_check(value) ==
    IF downcast_is(value, "String")
    THEN (IF Len(value.s) = 0 THEN RuleErr("Value is required") ELSE RuleOk)
    ELSE IF downcast_is(value, "&str")
    THEN (IF Len(value.s) = 0 THEN RuleErr("Value is required") ELSE RuleOk)
    ELSE IF downcast_is(value, "Option<String>")
    THEN (IF ~value.some THEN RuleErr("Value is required") ELSE RuleOk)
    ELSE IF downcast_is(value, "Vec<String>")
    THEN (IF Len(value.items) = 0 THEN RuleErr("Value is required") ELSE RuleOk)
    ELSE RuleOk

RequiredIf_validate_any(rule, value) ==
    IF rule.condition THEN required_check(value) ELSE RuleOk

RequiredWith_validate_any(rule, value) ==
    IF rule.other_field.some
    THEN (IF rule.other_field.val = rule.expected_value THEN required_check(value) ELSE RuleOk)
    ELSE RuleOk

RequiredWithout_validate_any(rule, value) ==
    IF rule.other_field.some
    THEN (IF rule.other_field.val # rule.expected_value THEN required_check(value) ELSE RuleOk)
    ELSE RuleOk

\* self.conditions.iter().any(|c| c())
RequiredIfAny_validate_any(rule, value) ==
    IF \E k \in DOMAIN rule.conditions : rule.conditions[k]
    THEN required_check(value) ELSE RuleOk

\* the first form asks for at least one condition
RequiredIfAll_needs_a_condition(rule, value) ==
    IF Len(rule.conditions) > 0 /\ \A k \in DOMAIN rule.conditions : rule.conditions[k]
    THEN required_check(value) ELSE RuleOk
\* self.conditions.iter().all(|c| c())
RequiredIfAll_validate_any(rule, value) ==
    IF \A k \in DOMAIN rule.conditions : rule.conditions[k]
    THEN required_check(value) ELSE RuleOk

I32_MAX == 2147483647
I32_MIN == -I32_MAX - 1

\* a % b on i32, b # 0: the remainder has the sign of a; i32::MIN % -1 overflows,
\* and the operator panics on overflow in every build profile
i32_rem(a, b) ==
    IF a = I32_MIN /\ b = -1 THEN [panic |-> TRUE, val |-> 0]
    ELSE IF b = I32_MIN THEN [panic |-> FALSE, val |-> IF a = I32_MIN THEN 0 ELSE a]
    ELSE LET d == IF b < 0 THEN -b ELSE b
             m == a % d
         IN [panic |-> FALSE, val |-> IF m = 0 THEN 0 ELSE IF a < 0 THEN m - d ELSE m]

DivisibleBy_validate_any(rule, value) ==
    IF downcast_is(value, "i32")
    THEN IF rule.divisor = 0 THEN RuleErr("Divisor cannot be zero")
         ELSE LET r == i32_rem(value.n, rule.divisor)
              IN IF r.panic THEN RulePanic
                 ELSE IF r.val # 0
                      THEN RuleErr("Value must be divisible by " \o ToString(rule.divisor))
                      ELSE RuleOk
    ELSE RuleErr("Value is not of the expected numeric type")

RECURSIVE validate_any(_, _)

\* one evaluation of a wrapped rule: on which element (index or key), on which
\* part of it, and on what value
Eval(at, part, value) == [at |-> at, part |-> part, value |-> value]
Ran(res, seen) == [res |-> res, evals |-> seen]

\* for (i, item) in vec.iter().enumerate(): the first form goes on after a failure
\* and reports the last one
RECURSIVE Each_loop_goes_on(_, _, _, _)
Each_loop_goes_on(rule, items, i, seen) ==
    IF i > Len(items) THEN Ran(RuleOk, seen)
    ELSE LET item == items[i]
             r == validate_any(rule.rule, item)
             rest == Each_loop_goes_on(rule, items, i + 1, Append(seen, Eval(i - 1, "item", item)))
         IN IF ~r.ok /\ rest.res.ok
            THEN Ran(RuleErr("Item at index " \o ToString(i - 1) \o " failed validation: "
                             \o Display_single(r.err)), rest.evals)
            ELSE rest
RECURSIVE Each_loop(_, _, _, _)
Each_loop(rule, items, i, seen) ==
    IF i > Len(items) THEN Ran(RuleOk, seen)
    ELSE LET item == items[i]
             r == validate_any(rule.rule, item)
             now == Append(seen, Eval(i - 1, "item", item))
         IN IF ~r.ok
            THEN Ran(RuleErr("Item at index " \o ToString(i - 1) \o " failed validation: "
                             \o Display_single(r.err)), now)
            ELSE Each_loop(rule, items, i + 1, now)

\* for (key, val) in map
RECURSIVE Each_entries(_, _, _, _)
Each_entries(rule, entries, i, seen) ==
    IF i > Len(entries) THEN Ran(RuleOk, seen)
    ELSE LET val == entries[i].val
             r == validate_any(rule.rule, val)
             now == Append(seen, Eval(entries[i].key, "value", val))
         IN IF ~r.ok
            THEN Ran(RuleErr("Value for key '" \o to_string(entries[i].key.s)
                             \o "' failed validation: " \o Display_single(r.err)), now)
            ELSE Each_entries(rule, entries, i + 1, now)

\* Each::validate_any with the evaluations it made of the wrapped rule
Each_run(rule, value) ==
    IF downcast_is(value, "Vec<String>") THEN Each_loop(rule, value.items, 1, <<>>)
    ELSE IF downcast_is(value, "Vec<i32>") THEN Each_loop(rule, value.items, 1, <<>>)
    ELSE IF downcast_is(value, "HashMap<String, String>")
         THEN Each_entries(rule, value.entries, 1, <<>>)
         ELSE Ran(RuleErr("Value must be a collection or map"), <<>>)

Each_validate_any(rule, value) == Each_run(rule, value).res

\* the first form evaluates the value rule of an entry before its key rule
RECURSIVE Map_entries_value_first(_, _, _, _)
Map_entries_value_first(rule, entries, i, seen) ==
    IF i > Len(entries) THEN Ran(RuleOk, seen)
    ELSE LET key == entries[i].key
             val == entries[i].val
             vr == IF rule.value_rule.some THEN validate_any(rule.value_rule.val, val) ELSE RuleOk
             afterVal == IF rule.value_rule.some
                         THEN Append(seen, Eval(entries[i].key, "value", val)) ELSE seen
             kr == IF rule.key_rule.some THEN validate_any(rule.key_rule.val, key) ELSE RuleOk
             afterKey == IF rule.key_rule.some
                         THEN Append(afterVal, Eval(entries[i].key, "key", key)) ELSE afterVal
         IN IF ~vr.ok
            THEN Ran(RuleErr("Map value for key '" \o to_string(entries[i].key.s)
                             \o "' failed validation: " \o Display_single(vr.err)), afterVal)
            ELSE IF ~kr.ok
                 THEN Ran(RuleErr("Map key '" \o to_string(entries[i].key.s)
                                  \o "' failed validation: " \o Display_single(kr.err)), afterKey)
                 ELSE Map_entries_value_first(rule, entries, i + 1, afterKey)
\* for (key, val) in map: the key rule, then the value rule
RECURSIVE Map_entries(_, _, _, _)
Map_entries(rule, entries, i, seen) ==
    IF i > Len(entries) THEN Ran(RuleOk, seen)
    ELSE LET key == entries[i].key
             val == entries[i].val
             kr == IF rule.key_rule.some THEN validate_any(rule.key_rule.val, key) ELSE RuleOk
             afterKey == IF rule.key_rule.some
                         THEN Append(seen, Eval(entries[i].key, "key", key)) ELSE seen
             vr == IF rule.value_rule.some THEN validate_any(rule.value_rule.val, val) ELSE RuleOk
             afterVal == IF rule.value_rule.some
                         THEN Append(afterKey, Eval(entries[i].key, "value", val)) ELSE afterKey
         IN IF ~kr.ok
            THEN Ran(RuleErr("Map key '" \o to_string(entries[i].key.s)
                             \o "' failed validation: " \o Display_single(kr.err)), afterKey)
            ELSE IF ~vr.ok
                 THEN Ran(RuleErr("Map value for key '" \o to_string(entries[i].key.s)
                                  \o "' failed validation: " \o Display_single(vr.err)), afterVal)
                 ELSE Map_entries(rule, entries, i + 1, afterVal)

\* Map::validate_any with the evaluations it made of its rules
Map_run(rule, value) ==
    IF downcast_is(value, "HashMap<String, String>")
    THEN Map_entries(rule, value.entries, 1, <<>>)
    ELSE IF downcast_is(value, "HashMap<String, i32>")
         THEN Map_entries(rule, value.entries, 1, <<>>)
         ELSE Ran(RuleErr("Value must be a map"), <<>>)

Map_validate_any(rule, value) == Map_run(rule, value).res

\* the condition closure of If and Unless, named by what it computes
Condition(condition, value) ==
    CASE condition = "always" -> TRUE
      [] condition = "never" -> FALSE
      [] condition = "is_string" -> downcast_is(value, "String")
      [] condition = "is_i32" -> downcast_is(value, "i32")

\* If::validate_any with the evaluations it made of `then`
If_run(rule, value) ==
    IF Condition(rule.condition, value)
    THEN Ran(validate_any(rule.then, value), <<Eval(0, "then", value)>>)
    ELSE Ran(RuleOk, <<>>)

\* the first form forgets the negation
Unless_run_as_if(rule, value) ==
    IF Condition(rule.condition, value)
    THEN Ran(validate_any(rule.then, value), <<Eval(0, "then", value)>>)
    ELSE Ran(RuleOk, <<>>)
\* Unless::validate_any with the evaluations it made of `then`
Unless_run(rule, value) ==
    IF ~Condition(rule.condition, value)
    THEN Ran(validate_any(rule.then, value), <<Eval(0, "then", value)>>)
    ELSE Ran(RuleOk, <<>>)

\* Rule::validate_any, dispatched on the rule's concrete type.  Url, Uuid, Json,
\* Phone and Unique hand their work to parsers outside this repository: they are
\* registered, and no declaration of the model evaluates them.
validate_any(rule, value) ==
    CASE rule.kind = "Required" -> Required_validate_any(value)
      [] rule.kind = "Length" -> Length_validate_any(rule, value)
      [] rule.kind = "Email" -> Email_validate_any(rule, value)
      [] rule.kind = "Positive" -> Positive_validate_any(value)
      [] rule.kind = "Negative" -> Negative_validate_any(value)
      [] rule.kind = "Min" -> Min_validate_any(rule, value)
      [] rule.kind = "Max" -> Max_validate_any(rule, value)
      [] rule.kind = "Range" -> Range_validate_any(rule, value)
      [] rule.kind = "DivisibleBy" -> DivisibleBy_validate_any(rule, value)
      [] rule.kind = "Each" -> Each_validate_any(rule, value)
      [] rule.kind = "Map" -> Map_validate_any(rule, value)
      [] rule.kind = "RequiredIf" -> RequiredIf_validate_any(rule, value)
      [] rule.kind = "RequiredWith" -> RequiredWith_validate_any(rule, value)
      [] rule.kind = "RequiredWithout" -> RequiredWithout_validate_any(rule, value)
      [] rule.kind = "RequiredIfAny" -> RequiredIfAny_validate_any(rule, value)
      [] rule.kind = "RequiredIfAll" -> RequiredIfAll_validate_any(rule, value)
      [] rule.kind = "If" -> If_run(rule, value).res
      [] rule.kind = "Unless" -> Unless_run(rule, value).res

\* the wrapped-rule evaluations a call of validate_any makes
evaluations(rule, value) ==
    CASE rule.kind = "Each" -> Each_run(rule, value).evals
      [] rule.kind = "Map" -> Map_run(rule, value).evals
      [] rule.kind = "If" -> If_run(rule, value).evals
      [] rule.kind = "Unless" -> Unless_run(rule, value).evals
      [] OTHER -> <<>>

(***************************************************************************)
(* Validator (src/validator.rs): the registry.                             *)
(***************************************************************************)
NotFound == [found |-> FALSE, rule |-> [kind |-> "None"]]
Found(r) == [found |-> TRUE, rule |-> r]

Validator_new == [rules |-> [k \in {} |-> Required]]

\* self.rules.insert(name, Box::new(rule)), wrongly keeping an earlier entry
add_rule_keep_first(self, name, rule) ==
    [rules |-> [k \in DOMAIN self.rules \cup {name} |->
                    IF k \in DOMAIN self.rules THEN self.rules[k] ELSE rule]]
add_rule(self, name, rule) ==
    [rules |-> [k \in DOMAIN self.rules \cup {name} |->
                    IF k = name THEN rule ELSE self.rules[k]]]

get_rule(self, name) ==
    IF name \in DOMAIN self.rules THEN Found(self.rules[name]) ELSE NotFound

(***************************************************************************)
(* The derive macro (rustvalidity-derive/src/lib.rs).  A declaration is a  *)
(* syn NestedMeta; the macro turns each one into statements of validate(). *)
(***************************************************************************)
\* an integer literal is its digits; a string literal its text
LitInt(digits) == [kind |-> "Int", digits |-> digits]
LitStr(str) == [kind |-> "Str", str |-> str]

Path(name) == [form |-> "Path", name |-> name]
NameValue(name, lit) == [form |-> "NameValue", name |-> name, lit |-> lit]
NestedLit(lit) == [form |-> "Lit", lit |-> lit]
List(name, nested) == [form |-> "List", name |-> name, nested |-> nested]

DigitValue == ("0" :> 0) @@ ("1" :> 1) @@ ("2" :> 2) @@ ("3" :> 3) @@ ("4" :> 4) @@
              ("5" :> 5) @@ ("6" :> 6) @@ ("7" :> 7) @@ ("8" :> 8) @@ ("9" :> 9)

I32_MAX_DIGITS == <<"2","1","4","7","4","8","3","6","4","7">>
USIZE_MAX_DIGITS == <<"1","8","4","4","6","7","4","4","0","7",
                      "3","7","0","9","5","5","1","6","1","5">>

RECURSIVE StripZeros(_)
StripZeros(ds) == IF Len(ds) > 1 /\ ds[1] = "0" THEN StripZeros(Tail(ds)) ELSE ds

\* a <= b for digit strings of one length
RECURSIVE DigitsLeq(_, _)
DigitsLeq(a, b) ==
    IF Len(a) = 0 THEN TRUE
    ELSE IF DigitValue[a[1]] < DigitValue[b[1]] THEN TRUE
    ELSE IF DigitValue[a[1]] > DigitValue[b[1]] THEN FALSE
    ELSE DigitsLeq(Tail(a), Tail(b))

\* lit_int.base10_parse::<T>() is Ok when the digits fit T
base10_parse_fits(lit, T) ==
    LET ds == StripZeros(lit.digits)
        mx == IF T = "i32" THEN I32_MAX_DIGITS ELSE USIZE_MAX_DIGITS
    IN Len(ds) < Len(mx) \/ (Len(ds) = Len(mx) /\ DigitsLeq(ds, mx))

\* the value base10_parse yields when the digits fit
RECURSIVE DigitsToInt(_, _)
DigitsToInt(ds, acc) ==
    IF Len(ds) = 0 THEN acc ELSE DigitsToInt(Tail(ds), acc * 10 + DigitValue[ds[1]])
base10_parse(lit) == DigitsToInt(lit.digits, 0)

NoRule == [kind |-> "None"]
StmtAddRule(name, rule, field, di) ==
    [op |-> "add_rule", name |-> name, rule |-> rule, field |-> field, di |-> di]
StmtCheck(name, field, di) ==
    [op |-> "check", name |-> name, rule |-> NoRule, field |-> field, di |-> di]

Generated(code) == [panic |-> FALSE, code |-> code]
MacroPanic == [panic |-> TRUE, code |-> <<>>]

\* a freshly parametrized rule: registered under the synthesized name, then looked up and run;
\* the first form leaves the field out of the name
RegisterAndCheck_unqualified(rule_name, rule, field, di) ==
    Generated(<<StmtAddRule(rule.kind, rule, field, di), StmtCheck(rule.kind, field, di)>>)
RegisterAndCheck(rule_name, rule, field, di) ==
    Generated(<<StmtAddRule(rule_name, rule, field, di), StmtCheck(rule_name, field, di)>>)

\* the loop over the nested items of length(..) and range(..): name = int-literal pairs
RECURSIVE ParseMinMax(_, _, _, _)
ParseMinMax(nested, k, acc, T) ==
    IF k > Len(nested) THEN acc
    ELSE LET item == nested[k]
         IN IF item.form = "NameValue" /\ item.lit.kind = "Int"
            THEN IF ~base10_parse_fits(item.lit, T)
                 THEN [acc EXCEPT !.panic = TRUE]
                 ELSE ParseMinMax(nested, k + 1,
                        IF item.name = "min" THEN [acc EXCEPT !.min = base10_parse(item.lit)]
                        ELSE IF item.name = "max" THEN [acc EXCEPT !.max = Some(base10_parse(item.lit))]
                        ELSE acc, T)
            ELSE ParseMinMax(nested, k + 1, acc, T)

\* the loop over the nested items of min(..) and max(..): bare int literals
RECURSIVE ParseValue(_, _, _)
ParseValue(nested, k, acc) ==
    IF k > Len(nested) THEN acc
    ELSE LET item == nested[k]
         IN IF item.form = "Lit" /\ item.lit.kind = "Int"
            THEN IF ~base10_parse_fits(item.lit, "i32")
                 THEN [acc EXCEPT !.panic = TRUE]
                 ELSE ParseValue(nested, k + 1, [acc EXCEPT !.value = base10_parse(item.lit)])
            ELSE ParseValue(nested, k + 1, acc)

CompilePath(field, decl, di) ==
    Generated(<<StmtCheck(decl.name, field, di)>>)

CompileLength(field, decl, di) ==
    LET p == ParseMinMax(decl.nested, 1, [panic |-> FALSE, min |-> 0, max |-> None], "usize")
    IN IF p.panic THEN MacroPanic
       ELSE RegisterAndCheck(field \o "_length", Length(p.min, p.max), field, di)

CompileRange(field, decl, di) ==
    LET p == ParseMinMax(decl.nested, 1, [panic |-> FALSE, min |-> 0, max |-> Some(0)], "i32")
    IN IF p.panic THEN MacroPanic
       ELSE RegisterAndCheck(field \o "_range", Range("i32", p.min, p.max.val), field, di)

CompileMinMaxList(field, decl, di) ==
    LET p == ParseValue(decl.nested, 1, [panic |-> FALSE, value |-> 0])
    IN IF p.panic THEN MacroPanic
       ELSE IF decl.name = "min"
            THEN RegisterAndCheck(field \o "_min", Min("i32", p.value), field, di)
            ELSE RegisterAndCheck(field \o "_max", Max("i32", p.value), field, di)

CompileList(field, decl, di) ==
    CASE decl.name = "length" -> CompileLength(field, decl, di)
      [] decl.name \in {"min", "max"} -> CompileMinMaxList(field, decl, di)
      [] decl.name = "range" -> CompileRange(field, decl, di)
      [] OTHER -> Generated(<<>>)

CompileNameValue(field, decl, di) ==
    IF decl.name \in {"min", "max"}
    THEN IF decl.lit.kind = "Int"
         THEN IF ~base10_parse_fits(decl.lit, "i32") THEN MacroPanic
              ELSE IF decl.name = "min"
                   THEN RegisterAndCheck(field \o "_min", Min("i32", base10_parse(decl.lit)), field, di)
                   ELSE RegisterAndCheck(field \o "_max", Max("i32", base10_parse(decl.lit)), field, di)
         ELSE Generated(<<>>)
    ELSE Generated(<<>>)

\* the match on one NestedMeta
CompileDecl(field, decl, di) ==
    CASE decl.form = "Path" -> CompilePath(field, decl, di)
      [] decl.form = "List" -> CompileList(field, decl, di)
      [] decl.form = "NameValue" -> CompileNameValue(field, decl, di)
      [] OTHER -> Generated(<<>>)

\* the first form hoists the field's registrations above its checks
RECURSIVE CompileField_registers_first(_, _)
CompileField_registers_first(f, di) ==
    IF di > Len(f.attrs) THEN Generated(<<>>)
    ELSE LET head == CompileDecl(f.name, f.attrs[di], di)
             rest == CompileField_registers_first(f, di + 1)
             code == head.code \o rest.code
         IN IF head.panic \/ rest.panic THEN MacroPanic
            ELSE Generated(SelectSeq(code, LAMBDA st : st.op = "add_rule")
                           \o SelectSeq(code, LAMBDA st : st.op = "check"))
\* validation_code of one field: its declarations' code, in source order
RECURSIVE CompileField(_, _)
CompileField(f, di) ==
    IF di > Len(f.attrs) THEN Generated(<<>>)
    ELSE LET head == CompileDecl(f.name, f.attrs[di], di)
             rest == CompileField(f, di + 1)
         IN IF head.panic \/ rest.panic THEN MacroPanic
            ELSE Generated(head.code \o rest.code)

\* field_validations: the fields' code, in field order
RECURSIVE derive_validate(_, _)
derive_validate(fields, fi) ==
    IF fi > Len(fields) THEN Generated(<<>>)
    ELSE LET head == CompileField(fields[fi], 1)
             rest == derive_validate(fields, fi + 1)
         IN IF head.panic \/ rest.panic THEN MacroPanic
            ELSE Generated(head.code \o rest.code)

(***************************************************************************)
(* The generated validate(): one action per generated statement.           *)
(***************************************************************************)
NoResult == [tag |-> "None"]
OkResult == [tag |-> "Ok"]
ErrResult(e) == [tag |-> "Err", err |-> e]

\* lines 268-279: the validator and the common rules it always registers
CommonRules ==
    << <<"required", Required>>, <<"email", Email(FALSE)>>, <<"url", Url(None)>>,
       <<"uuid", Uuid>>, <<"json", Json>>, <<"positive", Positive>>,
       <<"negative", Negative>>, <<"unique", Unique>>, <<"phone", Phone(FALSE)>> >>

RECURSIVE AddAll(_, _, _)
AddAll(v, pairs, k) ==
    IF k > Len(pairs) THEN v ELSE AddAll(add_rule(v, pairs[k][1], pairs[k][2]), pairs, k + 1)

Preamble == AddAll(Validator_new, CommonRules, 1)

FieldValue(fields, name) == (CHOOSE i \in 1..Len(fields) : fields[i].name = name)

\* if let Err(err) = validator.get_rule(name).unwrap().validate(&self.field as &dyn Any)
\*     { errors.entry(field).or_insert_with(Vec::new).push(format!("{}", err)); }
\* the first form takes a rule that is not registered for a passing check
CheckStep_missing_passes(v, errs, st, value) ==
    LET r == get_rule(v, st.name)
        res == IF r.found THEN validate_any(r.rule, value) ELSE RuleOk
    IN [panic |-> FALSE, found |-> r.found, ok |-> res.ok,
        msg |-> Display_single(res.err),
        errors |-> IF res.ok THEN errs ELSE entry_push(errs, st.field, Display_single(res.err))]
CheckStep(v, errs, st, value) ==
    LET r == get_rule(v, st.name)
    IN IF ~r.found
       THEN [panic |-> TRUE, found |-> FALSE, ok |-> FALSE, msg |-> "", errors |-> errs]
       ELSE LET res == validate_any(r.rule, value)
            IN [panic |-> FALSE, found |-> TRUE, ok |-> res.ok,
                msg |-> Display_single(res.err),
                errors |-> IF res.ok THEN errs
                           ELSE entry_push(errs, st.field, Display_single(res.err))]

\* lines 287-291
validate_return_always_err(errs) ==
    ErrResult(Multiple(errs))
validate_return(errs) ==
    IF DOMAIN errs # {} THEN ErrResult(Multiple(errs)) ELSE OkResult

(***************************************************************************)
(* The structs the macro is applied to.                                    *)
(***************************************************************************)
EmptyString == <<>>
Ab == <<"A", "b">>
GoodEmail == <<"a", "@", "b", ".", "c", "o">>

Digits3 == <<"3">>
Digits50 == <<"5", "0">>
Digits0 == <<"0">>
DigitsTooBig == <<"2","1","4","7","4","8","3","6","4","8">>

DeclInputs ==
    { Path("required"), Path("email"), Path("positive"), Path("probe"),
      List("length", <<NameValue("min", LitInt(Digits3)), NameValue("max", LitInt(Digits50))>>),
      List("length", <<NameValue("min", LitStr("x"))>>),
      List("range", <<NameValue("max", LitStr("x"))>>),
      List("min", <<NestedLit(LitInt(Digits0))>>),
      NameValue("min", LitInt(Digits0)),
      NameValue("min", LitStr("x")),
      NameValue("min", LitInt(DigitsTooBig)),
      List("probe", <<NestedLit(LitInt(Digits3))>>),
      NameValue("probe", LitInt(Digits3)) }

FieldNames == <<"email", "price">>
FieldValues ==
    << {StringVal(EmptyString), StringVal(Ab), StringVal(GoodEmail)},
       {F64Val(-1000), F64Val(2999), I32Val(-1), I32Val(18)} >>

AttrLists(n) == UNION {[1..k -> DeclInputs] : k \in 0..n}

StructInputs(n) ==
    { <<[name |-> FieldNames[1], value |-> v1, attrs |-> a1],
        [name |-> FieldNames[2], value |-> v2, attrs |-> a2]>> :
        <<v1, v2, a1, a2>> \in
            { t \in FieldValues[1] \X FieldValues[2] \X AttrLists(n) \X AttrLists(n) :
                Len(t[3]) + Len(t[4]) <= n } }

(***************************************************************************)
(* Initial states and actions.                                             *)
(***************************************************************************)
NoModel == [shape |-> "None"]
NoGot == [name |-> "", res |-> NotFound, want |-> NoRule]
NoStruct == <<>>
NoText == [order |-> <<>>, lines |-> <<>>]
NoCall == [rule |-> [kind |-> "None"], value |-> [ty |-> "None"]]
NoRet == [ok |-> FALSE, err |-> [shape |-> "None"]]

RegNames == {"required", "price_min", "probe"}
RegRules == {Required, Min("i32", 0), Min("i32", 18)}

ErrFields == {"a", "b", "_"}
ErrMsgs == {"x", "y"}

IdleApi ==
    /\ validator = Validator_new
    /\ lastAdded = [n \in RegNames |-> NoRule]
    /\ got = NoGot
IdleErr ==
    /\ ev = [a |-> NoModel, b |-> NoModel]
    /\ mlast = [done |-> FALSE, out |-> NoModel]
IdlePass ==
    /\ struct = NoStruct /\ plan = <<>> /\ ip = 0
    /\ errors = EmptyMap /\ result = NoResult /\ log = <<>>
    /\ rendered = NoText
\* Pattern<T>: the rules in the order they were given
Pattern(rules) == [kind |-> "Pattern", rules |-> rules]

\* the first form goes through the whole list and returns the last error
RECURSIVE Pattern_loop_last_error(_, _, _, _)
Pattern_loop_last_error(rules, value, i, seen) ==
    IF i > Len(rules) THEN Ran(RuleOk, seen)
    ELSE LET r == validate_any(rules[i], value)
             rest == Pattern_loop_last_error(rules, value, i + 1,
                                             Append(seen, Eval(i - 1, "rule", value)))
         IN IF ~r.ok /\ rest.res.ok THEN Ran(r, rest.evals) ELSE rest
\* for rule in &self.rules
RECURSIVE Pattern_loop(_, _, _, _)
Pattern_loop(rules, value, i, seen) ==
    IF i > Len(rules) THEN Ran(RuleOk, seen)
    ELSE LET r == validate_any(rules[i], value)
             now == Append(seen, Eval(i - 1, "rule", value))
         IN IF ~r.ok THEN Ran(r, now) ELSE Pattern_loop(rules, value, i + 1, now)

\* Pattern::validate with the evaluations it made of its rules
Pattern_validate(pattern, value) == Pattern_loop(pattern.rules, value, 1, <<>>)

IdleRule ==
    /\ call = NoCall /\ evals = <<>> /\ ret = NoRet
IdleThreads ==
    passes = <<>>

Init ==
    /\ struct \in StructInputs(MaxDecls)
    /\ pc = "source"
    /\ plan = <<>> /\ ip = 0
    /\ validator = Validator_new
    /\ errors = EmptyMap /\ result = NoResult /\ log = <<>>
    /\ lastAdded = [n \in RegNames |-> NoRule] /\ got = NoGot
    /\ rendered = NoText
    /\ IdleErr /\ IdleRule /\ IdleThreads

\* the macro runs over the struct: the impl is generated
MacroExpand ==
    /\ pc = "source"
    /\ ~derive_validate(struct, 1).panic
    /\ plan' = derive_validate(struct, 1).code
    /\ pc' = "compiled"
    /\ UNCHANGED <<struct, ip, validator, errors, result, log, lastAdded, got, ev, mlast,
                   call, evals, ret, rendered, passes>>

\* the macro panics (an unwrap on a literal that does not fit): the build fails
MacroPanics ==
    /\ pc = "source"
    /\ derive_validate(struct, 1).panic
    /\ pc' = "rejected"
    /\ UNCHANGED <<struct, plan, ip, validator, errors, result, log, lastAdded, got, ev, mlast,
                   call, evals, ret, rendered, passes>>

\* validate() is called: lines 263-282
ValidateBegin ==
    /\ pc = "compiled"
    /\ validator' = Preamble
    /\ errors' = EmptyMap
    /\ ip' = 1
    /\ pc' = "run"
    /\ UNCHANGED <<struct, plan, result, log, lastAdded, got, ev, mlast,
                   call, evals, ret, rendered, passes>>

\* validator.add_rule(#rule_name, ..)
ExecAddRule ==
    /\ pc = "run" /\ ip <= Len(plan) /\ plan[ip].op = "add_rule"
    /\ validator' = add_rule(validator, plan[ip].name, plan[ip].rule)
    /\ ip' = ip + 1
    /\ UNCHANGED <<struct, pc, plan, errors, result, log, lastAdded, got, ev, mlast,
                   call, evals, ret, rendered, passes>>

LogEntry(st, step, r) ==
    [field |-> st.field, di |-> st.di, name |-> st.name, found |-> step.found,
     rule |-> r, ok |-> step.ok, msg |-> step.msg]

\* one generated `if let Err(err) = validator.get_rule(..).unwrap().validate(..)`
ExecCheck ==
    /\ pc = "run" /\ ip <= Len(plan) /\ plan[ip].op = "check"
    /\ LET st == plan[ip]
           value == struct[FieldValue(struct, st.field)].value
           step == CheckStep(validator, errors, st, value)
       IN /\ log' = Append(log, LogEntry(st, step, get_rule(validator, st.name).rule))
          /\ \/ /\ step.panic
                /\ pc' = "panicked"
                /\ UNCHANGED <<ip, errors>>
             \/ /\ ~step.panic
                /\ errors' = step.errors
                /\ ip' = ip + 1
                /\ pc' = pc
    /\ UNCHANGED <<struct, plan, validator, result, lastAdded, got, ev, mlast,
                   call, evals, ret, rendered, passes>>

\* lines 286-291
ValidateReturn ==
    /\ pc = "run" /\ ip > Len(plan)
    /\ result' = validate_return(errors)
    /\ pc' = "done"
    /\ UNCHANGED <<struct, plan, ip, validator, errors, log, lastAdded, got, ev, mlast,
                   call, evals, ret, rendered, passes>>

\* the caller prints the error: println!("{}", err)
Render ==
    /\ pc = "done" /\ result.tag = "Err" /\ rendered = NoText
    /\ \E order \in Orders(DOMAIN result.err.errors) :
          rendered' = [order |-> order, lines |-> Display(result.err, order)]
    /\ UNCHANGED <<struct, pc, plan, ip, validator, errors, result, log, lastAdded, got, ev, mlast,
                   call, evals, ret, passes>>

Next ==
    \/ MacroExpand
    \/ MacroPanics
    \/ ValidateBegin
    \/ ExecAddRule
    \/ ExecCheck
    \/ ValidateReturn
    \/ Render

Spec == Init /\ [][Next]_vars

(***************************************************************************)
(* The registry driven through its API: add_rule and get_rule in any order *)
(***************************************************************************)
InitRegistry ==
    /\ pc = "api"
    /\ IdlePass /\ IdleApi /\ IdleErr /\ IdleRule /\ IdleThreads

ApiAddRule(name, rule) ==
    /\ pc = "api"
    /\ validator' = add_rule(validator, name, rule)
    /\ lastAdded' = [lastAdded EXCEPT ![name] = rule]
    /\ UNCHANGED <<struct, pc, plan, ip, errors, result, log, got, ev, mlast,
                   call, evals, ret, rendered, passes>>

ApiGetRule(name) ==
    /\ pc = "api"
    /\ got' = [name |-> name, res |-> get_rule(validator, name), want |-> lastAdded[name]]
    /\ UNCHANGED <<struct, pc, plan, ip, validator, errors, result, log, lastAdded, ev, mlast,
                   call, evals, ret, rendered, passes>>

NextRegistry ==
    \/ \E name \in RegNames, rule \in RegRules : ApiAddRule(name, rule)
    \/ \E name \in RegNames : ApiGetRule(name)

SpecRegistry == InitRegistry /\ [][NextRegistry]_vars

(***************************************************************************)
(* Error models built with new, field and merge.                           *)
(***************************************************************************)
InitError ==
    /\ pc = "api"
    /\ IdlePass /\ IdleApi /\ IdleErr /\ IdleRule /\ IdleThreads

RECURSIVE SumLen(_, _)
SumLen(map, keys) ==
    IF keys = {} THEN 0
    ELSE LET k == CHOOSE x \in keys : TRUE IN Len(map[k]) + SumLen(map, keys \ {k})

MessageCount(e) ==
    CASE e.shape = "Single" -> 1
      [] e.shape = "Multiple" -> SumLen(e.errors, DOMAIN e.errors)
      [] OTHER -> 0

Forget == [done |-> FALSE, out |-> NoModel]

ErrNew(slot, msg) ==
    /\ pc = "api"
    /\ ev' = [ev EXCEPT ![slot] = ValidationError_new(msg)]
    /\ mlast' = Forget
    /\ UNCHANGED <<struct, pc, plan, ip, validator, errors, result, log, lastAdded, got,
                   call, evals, ret, rendered, passes>>

ErrField(slot, field, msg) ==
    /\ pc = "api"
    /\ ev' = [ev EXCEPT ![slot] = ValidationError_field(field, msg)]
    /\ mlast' = Forget
    /\ UNCHANGED <<struct, pc, plan, ip, validator, errors, result, log, lastAdded, got,
                   call, evals, ret, rendered, passes>>

\* out = ev.a.merge(ev.b)
ErrMerge ==
    /\ pc = "api"
    /\ ev.a # NoModel /\ ev.b # NoModel /\ ~mlast.done
    /\ mlast' = [done |-> TRUE, out |-> ValidationError_merge(ev.a, ev.b)]
    /\ UNCHANGED <<struct, pc, plan, ip, validator, errors, result, log, lastAdded, got, ev,
                   call, evals, ret, rendered, passes>>

\* the merged model becomes an operand of a later merge
ErrKeep(slot) ==
    /\ pc = "api"
    /\ mlast.done /\ MessageCount(mlast.out) <= MaxMsgs
    /\ ev' = [ev EXCEPT ![slot] = mlast.out]
    /\ mlast' = Forget
    /\ UNCHANGED <<struct, pc, plan, ip, validator, errors, result, log, lastAdded, got,
                   call, evals, ret, rendered, passes>>

NextError ==
    \/ \E slot \in {"a", "b"}, msg \in ErrMsgs : ErrNew(slot, msg)
    \/ \E slot \in {"a", "b"}, field \in ErrFields, msg \in ErrMsgs : ErrField(slot, field, msg)
    \/ ErrMerge
    \/ \E slot \in {"a", "b"} : ErrKeep(slot)

SpecError == InitError /\ [][NextError]_vars

(***************************************************************************)
(* A rule applied on its own to a value behind `&dyn Any`.                 *)
(***************************************************************************)
MaxItems == 3       \* elements of a Vec
MaxEntries == 2     \* entries of a HashMap
MaxConds == 2       \* conditions of RequiredIfAny and RequiredIfAll
MaxRules == 3           \* rules in a Pattern
MaxChain == 3           \* declarations on the one field of a chain struct

OkStr == <<"o", "k">>
KeyK == <<"k">>
StringInputs == {StringVal(EmptyString), StringVal(OkStr)}
KeyInputs == {StringVal(EmptyString), StringVal(KeyK)}
I32Inputs == {I32Val(-1), I32Val(1)}

SeqsUpTo(S, n) == UNION {[1..k -> S] : k \in 0..n}
\* the entries of a HashMap: no key twice
EntriesUpTo(K, V, n) ==
    { es \in SeqsUpTo([key : K, val : V], n) :
        \A i \in DOMAIN es : \A j \in DOMAIN es : i # j => es[i].key # es[j].key }

LeafRules ==
    { Required, Length(1, Some(2)), Email(FALSE), Positive, Negative,
      Min("i32", 0), Max("i32", 0), Range("i32", 0, 1) }
Combinators ==
    { Each(Required), Each(Positive), Each(Min("i32", 0)),
      Map(Some(Required), Some(Required)), Map(Some(Required), NoneRule),
      Map(NoneRule, Some(Positive)), Map(NoneRule, NoneRule) }
    \cup { RequiredIf(c) : c \in BOOLEAN }
    \cup { RequiredWith(o, 1) : o \in {None, Some(1), Some(2)} }
    \cup { RequiredWithout(o, 1) : o \in {None, Some(1), Some(2)} }
    \cup { RequiredIfAny(cs) : cs \in SeqsUpTo(BOOLEAN, MaxConds) }
    \cup { RequiredIfAll(cs) : cs \in SeqsUpTo(BOOLEAN, MaxConds) }
RuleInputs == LeafRules \cup Combinators

\* DivisibleBy<i32> at and around the ends of i32
I32Edges == {I32_MIN, I32_MIN + 1, -6, -3, -1, 0, 1, 2, 3, 6, I32_MAX - 1, I32_MAX}
DivisibleCalls ==
    [rule : { DivisibleBy(d) : d \in I32Edges },
     value : { I32Val(n) : n \in I32Edges } \cup {StringVal(OkStr), F64Val(2999)}]

\* If and Unless over the condition closures and two wrapped rules
Conditions == {"always", "never", "is_string", "is_i32"}
ConditionalCalls ==
    [rule : { If(c, r) : c \in Conditions, r \in {Required, Positive} }
            \cup { Unless(c, r) : c \in Conditions, r \in {Required, Positive} },
     value : { StringVal(EmptyString), StringVal(OkStr), I32Val(-1), I32Val(5), BoolVal(TRUE) }]

\* patterns over rules that fail with different messages
PatternRules == {Required, Length(1, Some(2)), Email(FALSE), Positive}
PatternCalls(n) ==
    [rule : { Pattern(rs) : rs \in SeqsUpTo(PatternRules, n) },
     value : { StringVal(EmptyString), StringVal(OkStr), StringVal(GoodEmail),
               I32Val(-1), I32Val(5) }]

ValueInputs ==
    { StringVal(EmptyString), StringVal(OkStr), StringVal(GoodEmail),
      StrRefVal(EmptyString), StrRefVal(OkStr),
      OptionStringVal(None), OptionStringVal(Some(EmptyString)), OptionStringVal(Some(OkStr)),
      I32Val(-1), I32Val(5), F64Val(2999), BoolVal(TRUE) }
    \cup { VecStringVal(items) : items \in SeqsUpTo(StringInputs, MaxItems) }
    \cup { VecI32Val(items) : items \in SeqsUpTo(I32Inputs, MaxItems) }
    \cup { HashMapStringStringVal(es) : es \in EntriesUpTo(KeyInputs, StringInputs, MaxEntries) }
    \cup { HashMapStringI32Val(es) : es \in EntriesUpTo(KeyInputs, I32Inputs, MaxEntries) }

InitRules ==
    /\ pc = "rule"
    /\ call \in [rule : RuleInputs, value : ValueInputs] \cup DivisibleCalls \cup ConditionalCalls
               \cup PatternCalls(MaxRules)
    /\ evals = <<>> /\ ret = NoRet
    /\ IdlePass /\ IdleApi /\ IdleErr /\ IdleThreads

\* call.rule.validate_any(&call.value)
CallValidateAny ==
    /\ pc = "rule" /\ call.rule.kind # "Pattern"
    /\ ret' = validate_any(call.rule, call.value)
    /\ evals' = evaluations(call.rule, call.value)
    /\ pc' = IF ret' = RulePanic THEN "panicked" ELSE "returned"
    /\ UNCHANGED <<struct, plan, ip, validator, errors, result, log, lastAdded, got, ev, mlast,
                   call, rendered, passes>>

\* Pattern::new(call.rule.rules).validate(&call.value)
CallPatternValidate ==
    /\ pc = "rule" /\ call.rule.kind = "Pattern"
    /\ LET run == Pattern_validate(call.rule, call.value)
       IN ret' = run.res /\ evals' = run.evals
    /\ pc' = "returned"
    /\ UNCHANGED <<struct, plan, ip, validator, errors, result, log, lastAdded, got, ev, mlast,
                   call, rendered, passes>>

NextRules == CallValidateAny \/ CallPatternValidate

SpecRules == InitRules /\ [][NextRules]_vars

(***************************************************************************)
(* Every way the program comes by an error model: the generated pass, and  *)
(* new, field and merge called directly.                                   *)
(***************************************************************************)
InitModels == Init \/ InitError
NextModels == Next \/ NextError
SpecModels == InitModels /\ [][NextModels]_vars

(***************************************************************************)
(* One numeric field carrying several declarations, two of them under the *)
(* same synthesized name: the same macro and the same generated pass.     *)
(***************************************************************************)
Digits1 == <<"1">>
Digits5 == <<"5">>
ChainDecls ==
    { List("min", <<NestedLit(LitInt(Digits1))>>),
      NameValue("min", LitInt(Digits5)),
      NameValue("min", LitInt(DigitsTooBig)),
      Path("positive"), Path("probe") }
ChainValues == {I32Val(0), I32Val(3), I32Val(7)}
ChainStructs(n) ==
    { <<[name |-> "price", value |-> v, attrs |-> a]>> :
        v \in ChainValues, a \in UNION {[1..k -> ChainDecls] : k \in 0..n} }

InitChain ==
    /\ struct \in ChainStructs(MaxChain)
    /\ pc = "source"
    /\ plan = <<>> /\ ip = 0
    /\ validator = Validator_new
    /\ errors = EmptyMap /\ result = NoResult /\ log = <<>>
    /\ lastAdded = [n \in RegNames |-> NoRule] /\ got = NoGot
    /\ rendered = NoText
    /\ IdleErr /\ IdleRule /\ IdleThreads

SpecChain == InitChain /\ [][Next]_vars

(***************************************************************************)
(* Two threads, each calling validate() on an object of its own.  A frame  *)
(* holds what the call owns: the object, and the locals `validator` and    *)
(* `errors` of the generated function.                                     *)
(***************************************************************************)
MaxThreadDecls == 1     \* declarations on the struct a thread validates

Threads == {1, 2}

ThreadDecls ==
    { Path("required"), Path("probe"),
      List("min", <<NestedLit(LitInt(Digits0))>>),
      NameValue("min", LitInt(Digits3)) }
ThreadValues == << {StringVal(EmptyString)}, {I32Val(-1), I32Val(18)} >>
ThreadAttrs(n) == UNION {[1..k -> ThreadDecls] : k \in 0..n}
ThreadStructs(n) ==
    { <<[name |-> FieldNames[1], value |-> v1, attrs |-> a1],
        [name |-> FieldNames[2], value |-> v2, attrs |-> a2]>> :
        <<v1, v2, a1, a2>> \in
            { t \in ThreadValues[1] \X ThreadValues[2] \X ThreadAttrs(n) \X ThreadAttrs(n) :
                Len(t[3]) + Len(t[4]) <= n } }

\* the call before its first statement: the impl the macro generated for the struct
Frame(s) ==
    [struct |-> s, pc |-> "compiled", plan |-> derive_validate(s, 1).code, ip |-> 0,
     validator |-> Validator_new, errors |-> EmptyMap, result |-> NoResult]

\* `validator` names the local of the running call; the first form names one shared by all
shared_validator(frames, t) == frames[1].validator
own_validator(frames, t) == frames[t].validator

InitThreads ==
    /\ pc = "threads"
    /\ passes \in [Threads -> { Frame(s) : s \in ThreadStructs(MaxThreadDecls) }]
    /\ IdlePass /\ IdleApi /\ IdleErr /\ IdleRule

OthersUnchanged ==
    UNCHANGED <<struct, pc, plan, ip, validator, errors, result, log, lastAdded, got, ev, mlast,
                call, evals, ret, rendered>>

\* lines 263-282
ThreadBegin(t) ==
    /\ pc = "threads" /\ passes[t].pc = "compiled"
    /\ passes' = [passes EXCEPT ![t] =
            [@ EXCEPT !.validator = Preamble, !.errors = EmptyMap, !.ip = 1, !.pc = "run"]]
    /\ OthersUnchanged

ThreadAddRule(t) ==
    /\ pc = "threads" /\ passes[t].pc = "run"
    /\ passes[t].ip <= Len(passes[t].plan) /\ passes[t].plan[passes[t].ip].op = "add_rule"
    /\ LET st == passes[t].plan[passes[t].ip]
       IN passes' = [passes EXCEPT ![t] =
            [@ EXCEPT !.validator = add_rule(own_validator(passes, t), st.name, st.rule),
                      !.ip = @ + 1]]
    /\ OthersUnchanged

ThreadCheck(t) ==
    /\ pc = "threads" /\ passes[t].pc = "run"
    /\ passes[t].ip <= Len(passes[t].plan) /\ passes[t].plan[passes[t].ip].op = "check"
    /\ LET st == passes[t].plan[passes[t].ip]
           value == passes[t].struct[FieldValue(passes[t].struct, st.field)].value
           step == CheckStep(own_validator(passes, t), passes[t].errors, st, value)
       IN passes' = [passes EXCEPT ![t] =
            IF step.panic THEN [@ EXCEPT !.pc = "panicked"]
            ELSE [@ EXCEPT !.errors = step.errors, !.ip = @ + 1]]
    /\ OthersUnchanged

\* lines 286-291
ThreadReturn(t) ==
    /\ pc = "threads" /\ passes[t].pc = "run" /\ passes[t].ip > Len(passes[t].plan)
    /\ passes' = [passes EXCEPT ![t] =
            [@ EXCEPT !.result = validate_return(passes[t].errors), !.pc = "done"]]
    /\ OthersUnchanged

NextThreads ==
    \E t \in Threads :
        \/ ThreadBegin(t)
        \/ ThreadAddRule(t)
        \/ ThreadCheck(t)
        \/ ThreadReturn(t)

SpecThreads == InitThreads /\ [][NextThreads]_vars

(***************************************************************************)
(* Properties of the generated validation pass (checked under Spec).       *)
(***************************************************************************)
FieldOf(name) == struct[FieldValue(struct, name)]
Failed(i) == log[i].found /\ ~log[i].ok
FailedRequired(i) == Failed(i) /\ log[i].rule = Required

RequiredDecl == Path("required")
EmailDecl == Path("email")
MinZeroDecls == { List("min", <<NestedLit(LitInt(Digits0))>>), NameValue("min", LitInt(Digits0)) }

RequiredMsg == "Value is required"
MinZeroMsg == "Value must be greater than or equal to 0"

\* C1: once a required check of a field has failed, no check declared after it
\* in that field's chain is evaluated in the pass.
C1_RequiredShortCircuits ==
    \A i \in DOMAIN log : \A j \in DOMAIN log :
        FailedRequired(i) /\ i < j /\ log[j].field = log[i].field => log[j].di <= log[i].di

\* C2: a string field declared `required, email` whose value is "" ends with
\* exactly one message, the required one.
C2_RequiredEmailOnEmpty ==
    ( /\ pc = "done"
      /\ FieldOf("email").attrs = <<RequiredDecl, EmailDecl>>
      /\ FieldOf("email").value = StringVal(EmptyString) )
    => /\ result.tag = "Err"
       /\ "email" \in DOMAIN result.err.errors
       /\ result.err.errors["email"] = <<RequiredMsg>>

\* C3: a float field declared min(0) or min = 0 passes at or above the bound
\* (the pass returns Ok when nothing else is declared) and gets exactly the
\* min-violation message below it.
C3_FloatMinZero ==
    ( /\ pc = "done"
      /\ FieldOf("price").value.ty = "f64"
      /\ Len(FieldOf("price").attrs) = 1
      /\ FieldOf("price").attrs[1] \in MinZeroDecls )
    => IF FieldOf("price").value.n >= 0
       THEN /\ "price" \notin DOMAIN errors
            /\ (FieldOf("email").attrs = <<>> => result = OkResult)
       ELSE /\ result.tag = "Err"
            /\ "price" \in DOMAIN result.err.errors
            /\ result.err.errors["price"] = <<MinZeroMsg>>

ChecksOf(code) == SelectSeq(code, LAMBDA st : st.op = "check")
FailingFields == { log[i].field : i \in { k \in DOMAIN log : Failed(k) } }

\* C4: when the pass returns, every check statement of every field has been
\* evaluated, whatever the other fields' checks gave, and the error model has
\* an entry for exactly the fields with a failing check.
C4_FieldsIndependent ==
    pc = "done" =>
        /\ Len(log) = Len(ChecksOf(plan))
        /\ \A k \in DOMAIN log :
              /\ log[k].field = ChecksOf(plan)[k].field
              /\ log[k].name = ChecksOf(plan)[k].name
              /\ log[k].found
        /\ \A f \in FailingFields : result.tag = "Err" /\ f \in DOMAIN result.err.errors
        /\ result.tag = "Err" => DOMAIN result.err.errors = FailingFields

C4_Witness ==
    /\ pc = "done" /\ result.tag = "Err"
    /\ DOMAIN result.err.errors = {"email", "price"}

\* what a declaration asks of a value of the type it is meant for
Numeric(value) == value.ty \in SignedTypes \cup UnsignedTypes
Stringy(value) == value.ty = "String"
DeclMeant(decl, value) ==
    \/ decl \in {RequiredDecl, EmailDecl} /\ Stringy(value)
    \/ decl \in MinZeroDecls /\ Numeric(value)
    \/ decl = Path("positive") /\ Numeric(value)
DeclViolated(decl, value) ==
    \/ decl = RequiredDecl /\ Len(value.s) = 0
    \/ decl = EmailDecl /\ ~email_regex_is_match(value.s)
    \/ decl \in MinZeroDecls /\ value.n < 0
    \/ decl = Path("positive") /\ value.n <= 0
ViolatesNothing ==
    \A fi \in DOMAIN struct : \A di \in DOMAIN struct[fi].attrs :
        /\ DeclMeant(struct[fi].attrs[di], struct[fi].value)
        /\ ~DeclViolated(struct[fi].attrs[di], struct[fi].value)

\* C5: the pass returns Ok iff no check produced a message; an object that
\* violates none of its declared constraints gets Ok.
C5_OkIffNoMessage ==
    pc = "done" =>
        /\ (result = OkResult <=> FailingFields = {})
        /\ (ViolatesNothing => result = OkResult)

RECURSIVE CountMsgs(_, _)
CountMsgs(map, keys) ==
    IF keys = {} THEN 0
    ELSE LET k == CHOOSE x \in keys : TRUE IN Len(map[k]) + CountMsgs(map, keys \ {k})

\* C7: a check whose rule name is not in the registry when it is reached aborts
\* the pass: it is the last thing the pass does, the pass returns nothing, and
\* the lookup neither counts as passed nor leaves a message.
C7_MissingRuleAborts ==
    /\ \A i \in DOMAIN log :
          ~log[i].found =>
              /\ pc = "panicked"
              /\ i = Len(log)
              /\ result = NoResult
              /\ ~log[i].ok
    /\ pc = "panicked" => ~log[Len(log)].found
    /\ CountMsgs(errors, DOMAIN errors) = Cardinality({ k \in DOMAIN log : Failed(k) })

C7_Witness ==
    /\ pc = "panicked" /\ Len(log) = 2
    /\ Failed(1) /\ log[2].name = "probe"
    /\ log[1].field = log[2].field

\* a parameter that is not an integer literal where the macro reads a number
NonNumericParam(decl) ==
    \/ /\ decl.form = "List" /\ decl.name \in {"length", "range"}
       /\ \E k \in DOMAIN decl.nested :
             /\ decl.nested[k].form = "NameValue"
             /\ decl.nested[k].name \in {"min", "max"}
             /\ decl.nested[k].lit.kind # "Int"
    \/ /\ decl.form = "List" /\ decl.name \in {"min", "max"}
       /\ \E k \in DOMAIN decl.nested :
             decl.nested[k].form = "Lit" /\ decl.nested[k].lit.kind # "Int"
    \/ /\ decl.form = "NameValue" /\ decl.name \in {"min", "max"}
       /\ decl.lit.kind # "Int"
Malformed ==
    \E fi \in DOMAIN struct : \E di \in DOMAIN struct[fi].attrs :
        NonNumericParam(struct[fi].attrs[di])

\* C8: a struct with a non-numeric parameter where a number is expected is
\* rejected by the macro: no plan is ever built for it.
C8_MalformedRejected ==
    Malformed => pc \in {"source", "rejected"}

(***************************************************************************)
(* Properties of the registry (checked under SpecRegistry).                *)
(***************************************************************************)
\* C6: get_rule(n) is the rule of the latest add_rule(n, _), and None when n
\* was never registered.
C6_LastRegistrationWins ==
    /\ \A n \in RegNames :
          get_rule(validator, n) =
              IF lastAdded[n] = NoRule THEN NotFound ELSE Found(lastAdded[n])
    /\ got.res = IF got.want = NoRule THEN NotFound ELSE Found(got.want)

C6_Witness ==
    /\ lastAdded["price_min"] = Min("i32", 18)
    /\ got = [name |-> "price_min", res |-> Found(Min("i32", 0)), want |-> Min("i32", 0)]
    /\ lastAdded["probe"] = NoRule

(***************************************************************************)
(* Properties of merge (checked under SpecError).                          *)
(***************************************************************************)
MsgsOf(e, f) == IF f \in DOMAIN e.errors THEN e.errors[f] ELSE <<>>

\* C9: for field-keyed a and b, every field of merge(a, b) holds a's messages
\* followed by b's, and the fields are those of a and of b together.
C9_MergeFieldwise ==
    (mlast.done /\ ev.a.shape = "Multiple" /\ ev.b.shape = "Multiple") =>
        /\ mlast.out.shape = "Multiple"
        /\ DOMAIN mlast.out.errors = DOMAIN ev.a.errors \cup DOMAIN ev.b.errors
        /\ \A f \in ErrFields \cup DOMAIN mlast.out.errors :
              MsgsOf(mlast.out, f) = MsgsOf(ev.a, f) \o MsgsOf(ev.b, f)

C9_Witness ==
    /\ mlast.done /\ ev.a.shape = "Multiple" /\ ev.b.shape = "Multiple"
    /\ DOMAIN ev.a.errors = {"a"} /\ DOMAIN ev.b.errors = {"a", "b"}
    /\ mlast.out.errors["a"] = <<"x", "y">>

\* C10: merging Single(x) with Single(y) gives one entry, under "_", holding
\* <<x, y>>.
C10_MergeSingles ==
    (mlast.done /\ ev.a.shape = "Single" /\ ev.b.shape = "Single") =>
        /\ mlast.out.shape = "Multiple"
        /\ DOMAIN mlast.out.errors = {"_"}
        /\ mlast.out.errors["_"] = <<ev.a.msg, ev.b.msg>>

C10_Witness ==
    /\ mlast.done /\ ev.a = Single("x") /\ ev.b = Single("y")
    /\ mlast.out.errors["_"] = <<"x", "y">>

(***************************************************************************)
(* Properties of every reachable error model (checked under SpecModels).   *)
(***************************************************************************)
NonEmptyModel(e) ==
    e.shape = "Multiple" =>
        /\ DOMAIN e.errors # {}
        /\ \A f \in DOMAIN e.errors : Len(e.errors[f]) > 0

\* C11: every field-keyed error model built by field, by merges of models
\* built from new and field, or returned as the Err of a validation pass, has
\* at least one field, and each of its fields has at least one message.
C11_ModelsNeverEmpty ==
    /\ NonEmptyModel(ev.a) /\ NonEmptyModel(ev.b)
    /\ mlast.done => (mlast.out.shape = "Multiple" /\ NonEmptyModel(mlast.out))
    /\ result.tag = "Err" => (result.err.shape = "Multiple" /\ NonEmptyModel(result.err))

C11_Witness ==
    /\ mlast.done /\ ev.a.shape = "Single" /\ ev.b.shape = "Multiple"
    /\ "_" \notin DOMAIN ev.b.errors
    /\ Cardinality(DOMAIN mlast.out.errors) = 2
    /\ Len(mlast.out.errors["_"]) = 1

(***************************************************************************)
(* Properties of rules applied on their own (checked under SpecRules).     *)
(***************************************************************************)
Returned == pc = "returned"
\* what the wrapped rule gives on element k (counted from 1) of the sequence
Wrapped(k) == validate_any(call.rule.rule, call.value.items[k])
FailingItems == { k \in DOMAIN call.value.items : ~Wrapped(k).ok }
FirstFailing == CHOOSE k \in FailingItems : \A j \in FailingItems : k <= j

\* C12: Each on a sequence passes iff the wrapped rule passes on every element;
\* when it fails, the message names the smallest failing index, and the wrapped
\* rule was evaluated on the elements up to that index, in order, and on none
\* after it.
C12_EachFailsFast ==
    (Returned /\ call.rule.kind = "Each" /\ call.value.ty \in {"Vec<String>", "Vec<i32>"}) =>
        /\ ret.ok <=> FailingItems = {}
        /\ ret.ok => ret = RuleOk
        /\ Len(evals) = IF ret.ok THEN Len(call.value.items) ELSE FirstFailing
        /\ \A k \in DOMAIN evals :
              evals[k] = Eval(k - 1, "item", call.value.items[k])
        /\ ~ret.ok =>
              ret = RuleErr("Item at index " \o ToString(FirstFailing - 1)
                            \o " failed validation: " \o Wrapped(FirstFailing).err.msg)

C12_Witness ==
    /\ Returned
    /\ call = [rule |-> Each(Required), value |-> VecStringVal(<<StringVal(OkStr), StringVal(EmptyString), StringVal(OkStr)>>)]
    /\ ret = RuleErr("Item at index 1 failed validation: Value is required")
    /\ Len(evals) = 2

\* the types a rule of common.rs or numeric.rs extracts, and what it says of others
ExtractedTypes(rule) ==
    CASE rule.kind = "Required" -> {"String", "&str", "Option<String>", "Vec<String>"}
      [] rule.kind = "Length" -> {"String", "&str", "Vec<String>"}
      [] rule.kind = "Email" -> {"String", "&str"}
      [] rule.kind = "Positive" -> SignedTypes \cup UnsignedTypes
      [] rule.kind = "Negative" -> SignedTypes
      [] rule.kind \in {"Min", "Max", "Range"} -> {rule.T}
UnsupportedMessage(rule) ==
    CASE rule.kind = "Length" -> "Value must be a string or collection"
      [] rule.kind = "Email" -> "Value must be a string"
      [] rule.kind = "Positive" -> "Value is not a numeric type"
      [] rule.kind = "Negative" -> "Value is not a signed numeric type"
      [] rule.kind \in {"Min", "Max", "Range"} -> "Value is not of the expected numeric type"

\* C13: a built-in rule applied to a value of a type it extracts none of fails,
\* with its unsupported-type message, and never passes; Required too, on a
\* value that is not a String, &str, Option<String> or Vec<String>.
C13_UnsupportedTypeFails ==
    (Returned /\ call.rule \in LeafRules /\ call.value.ty \notin ExtractedTypes(call.rule)) =>
        /\ ~ret.ok
        /\ call.rule.kind # "Required" => ret = RuleErr(UnsupportedMessage(call.rule))

RequiredIfKinds ==
    {"RequiredIf", "RequiredWith", "RequiredWithout", "RequiredIfAny", "RequiredIfAll"}
\* the container types a combinator extracts
CombinatorTypes(rule) ==
    CASE rule.kind = "Each" -> {"Vec<String>", "Vec<i32>", "HashMap<String, String>"}
      [] rule.kind = "Map" -> {"HashMap<String, String>", "HashMap<String, i32>"}
      [] rule.kind \in RequiredIfKinds -> {"String", "&str", "Option<String>", "Vec<String>"}
Unsupported(rule, value) == value.ty \notin CombinatorTypes(rule)

\* C14: a combinator applied to a value of a type it does not support fails,
\* and every combinator that does not support the value fails with the same
\* message.
C14_CombinatorsSameUnsupported ==
    (Returned /\ call.rule \in Combinators /\ Unsupported(call.rule, call.value)) =>
        /\ ~ret.ok
        /\ \A r \in Combinators :
              Unsupported(r, call.value) => validate_any(r, call.value) = ret

\* the predicate of a required-if rule
PredicateHolds(rule) ==
    CASE rule.kind = "RequiredIf" -> rule.condition
      [] rule.kind = "RequiredWith" ->
            rule.other_field.some /\ rule.other_field.val = rule.expected_value
      [] rule.kind = "RequiredWithout" ->
            rule.other_field.some /\ rule.other_field.val # rule.expected_value
      [] rule.kind = "RequiredIfAny" -> \E k \in DOMAIN rule.conditions : rule.conditions[k]
      [] rule.kind = "RequiredIfAll" -> \A k \in DOMAIN rule.conditions : rule.conditions[k]

\* C15: a required-if rule whose predicate holds returns what Required returns
\* on the same value, outcome and message; one whose predicate does not hold
\* returns Ok whatever the value.
C15_RequiredIfIsRequired ==
    (Returned /\ call.rule.kind \in RequiredIfKinds) =>
        ret = IF PredicateHolds(call.rule) THEN Required_validate_any(call.value) ELSE RuleOk

C15_Witness ==
    /\ Returned
    /\ call = [rule |-> RequiredWithout(Some(2), 1), value |-> OptionStringVal(None)]
    /\ ret = RuleErr("Value is required")

(***************************************************************************)
(* Properties of the macro's expansion (checked under Spec).               *)
(***************************************************************************)
Expanded == pc \notin {"source", "rejected"}
\* the constraint kinds the macro knows, and the names validate() pre-registers
FixedTable ==
    {"required", "length", "min", "max", "range", "email", "url", "uuid", "json",
     "positive", "negative", "unique", "phone"}
CommonNames ==
    {"required", "email", "url", "uuid", "json", "positive", "negative", "unique", "phone"}
AddRules == { k \in DOMAIN plan : plan[k].op = "add_rule" }
Checks == { k \in DOMAIN plan : plan[k].op = "check" }

\* C16: every declaration of every field contributes a check to the pass, and
\* a declaration whose name is not in the fixed table contributes a lookup of
\* that very name, whether it is written bare, name(..) or name = literal
\* (of a struct whose numeric parameters are all integer literals).
C16_EveryDeclarationChecked ==
    (Expanded /\ ~Malformed) =>
        \A fi \in DOMAIN struct : \A di \in DOMAIN struct[fi].attrs :
            \E k \in Checks :
                /\ plan[k].field = struct[fi].name /\ plan[k].di = di
                /\ struct[fi].attrs[di].name \notin FixedTable =>
                       plan[k].name = struct[fi].attrs[di].name

\* C17: a field's required check is evaluated before every other check of
\* that field, wherever `required` stands among the field's declarations.
C17_RequiredRunsFirst ==
    \A i \in DOMAIN log : \A j \in DOMAIN log :
        (log[i].name = "required" /\ j < i /\ log[j].field = log[i].field)
            => log[j].name = "required"

\* C18: the names the pass registers parametrized rules under differ between
\* fields and from the pre-registered common names, so the pre-registered
\* rules stay what they were, and every check that finds its rule gets the
\* common rule of its keyword or a rule registered for its own field.
C18_SynthesizedNamesApart ==
    /\ \A i \in AddRules : \A j \in AddRules :
          plan[i].name = plan[j].name => plan[i].field = plan[j].field
    /\ \A i \in AddRules : plan[i].name \notin CommonNames
    /\ pc \in {"run", "done", "panicked"} =>
          \A n \in CommonNames : get_rule(validator, n) = get_rule(Preamble, n)
    /\ \A k \in DOMAIN log :
          log[k].found =>
              IF log[k].name \in CommonNames
              THEN Found(log[k].rule) = get_rule(Preamble, log[k].name)
              ELSE \E i \in AddRules :
                      /\ plan[i].name = log[k].name
                      /\ plan[i].field = log[k].field
                      /\ plan[i].rule = log[k].rule

C18_Witness ==
    /\ pc = "done" /\ Len(log) = 2
    /\ {"email_min", "price_min"} \subseteq DOMAIN validator.rules
    /\ log[1].name = "email_min" /\ log[2].name = "price_min"

\* the fields of the pass's error map in the order they were first inserted
RECURSIVE InsertionOrder(_, _)
InsertionOrder(k, acc) ==
    IF k > Len(log) THEN acc
    ELSE InsertionOrder(k + 1,
            IF Failed(k) /\ \A i \in DOMAIN acc : acc[i] # log[k].field
            THEN Append(acc, log[k].field) ELSE acc)

\* C19: the rendering of the pass's error is fixed by how the error was built:
\* the header, then the fields in the order they were first inserted, each
\* field's messages on consecutive lines, one per line behind the field name.
C19_RenderInsertionOrder ==
    rendered # NoText =>
        rendered.lines = Display(result.err, InsertionOrder(1, <<>>))

(***************************************************************************)
(* Properties of concurrent passes (checked under SpecThreads).            *)
(***************************************************************************)
\* the pass run with nothing else running: its registry, its error map and
\* whether it panicked, once the statements before the k-th have been executed
RECURSIVE Alone(_, _, _, _, _)
Alone(s, code, k, upto, acc) ==
    IF k >= upto \/ acc.panic THEN acc
    ELSE LET st == code[k]
         IN IF st.op = "add_rule"
            THEN Alone(s, code, k + 1, upto,
                       [acc EXCEPT !.validator = add_rule(@, st.name, st.rule)])
            ELSE LET step == CheckStep(acc.validator, acc.errors, st,
                                       s[FieldValue(s, st.field)].value)
                 IN IF step.panic THEN [acc EXCEPT !.panic = TRUE]
                    ELSE Alone(s, code, k + 1, upto, [acc EXCEPT !.errors = step.errors])
AloneTo(s, upto) ==
    Alone(s, derive_validate(s, 1).code, 1, upto,
          [validator |-> Preamble, errors |-> EmptyMap, panic |-> FALSE])
AloneAll(s) == AloneTo(s, Len(derive_validate(s, 1).code) + 1)

\* C20: whatever the interleaving of two passes on two objects, each pass
\* holds at every step the registry and the error map it holds at that step
\* when run alone, and ends with the result (or the panic) it ends with when
\* run alone.
C20_PassesDoNotInterfere ==
    \A t \in DOMAIN passes :
        LET f == passes[t] IN
        /\ f.pc = "run" =>
              /\ ~AloneTo(f.struct, f.ip).panic
              /\ f.validator = AloneTo(f.struct, f.ip).validator
              /\ f.errors = AloneTo(f.struct, f.ip).errors
        /\ f.pc = "done" =>
              /\ ~AloneAll(f.struct).panic
              /\ f.result = validate_return(AloneAll(f.struct).errors)
        /\ f.pc = "panicked" =>
              /\ AloneAll(f.struct).panic
              /\ f.result = NoResult

C20_Witness ==
    /\ DOMAIN passes = Threads
    /\ passes[1].pc = "done" /\ passes[2].pc = "done"
    /\ passes[1].result = OkResult /\ passes[2].result.tag = "Err"
    /\ "price_min" \in DOMAIN passes[1].validator.rules
    /\ "price_min" \in DOMAIN passes[2].validator.rules
    /\ passes[1].validator.rules["price_min"] # passes[2].validator.rules["price_min"]

\* value = k * divisor for some integer k, divisor # 0
IsMultipleOf(value, divisor) ==
    IF divisor = I32_MIN THEN value \in {0, I32_MIN}
    ELSE value % (IF divisor < 0 THEN -divisor ELSE divisor) = 0

\* C21: DivisibleBy<i32> returns, and never aborts, for every pair of i32
\* value and divisor: for divisor 0 the error "Divisor cannot be zero",
\* otherwise Ok exactly when the value is a multiple of the divisor.
C21_DivisibleByTotal ==
    (pc # "rule" /\ call.rule.kind = "DivisibleBy" /\ call.value.ty = "i32") =>
        /\ Returned
        /\ ret # RulePanic
        /\ IF call.rule.divisor = 0 THEN ret = RuleErr("Divisor cannot be zero")
           ELSE ret.ok <=> IsMultipleOf(call.value.n, call.rule.divisor)

(***************************************************************************)
(* Further properties of the generated pass (checked under Spec).          *)
(***************************************************************************)
LengthDecl ==
    List("length", <<NameValue("min", LitInt(Digits3)), NameValue("max", LitInt(Digits50))>>)
ShortOfMin(value) == value.ty = "String" /\ 0 < Len(value.s) /\ Len(value.s) < 3

\* C22: a string field declared `required, length(min=3, max=50)` whose value
\* is non-empty and shorter than 3 makes the pass return Err, with exactly
\* one message for the field: the length one.
C22_RequiredLengthOnShort ==
    ( /\ pc = "done"
      /\ FieldOf("email").attrs = <<RequiredDecl, LengthDecl>>
      /\ ShortOfMin(FieldOf("email").value) )
    => /\ result.tag = "Err"
       /\ "email" \in DOMAIN result.err.errors
       /\ result.err.errors["email"] = <<"Length must be at least 3">>

C22_Witness ==
    /\ pc = "done"
    /\ FieldOf("email").attrs = <<RequiredDecl, LengthDecl>>
    /\ FieldOf("email").value = StringVal(Ab)
    /\ Len(log) = 2 /\ log[1].ok /\ ~log[2].ok

(***************************************************************************)
(* Further properties of the rules (checked under SpecRules).              *)
(***************************************************************************)
ThenResult == validate_any(call.rule.then, call.value)
ThenEvaluated == evals = <<Eval(0, "then", call.value)>>
ConditionHolds == Condition(call.rule.condition, call.value)

\* C23: If returns its rule's result when the condition holds on the value
\* and Ok without evaluating the rule when it does not; Unless does the
\* opposite; of If and Unless built from the same condition and rule,
\* exactly one evaluates the rule on any value.
C23_IfUnlessOpposite ==
    (Returned /\ call.rule.kind \in {"If", "Unless"}) =>
        /\ IF ConditionHolds <=> (call.rule.kind = "If")
           THEN ret = ThenResult /\ ThenEvaluated
           ELSE ret = RuleOk /\ evals = <<>>
        /\ Len(evaluations(If(call.rule.condition, call.rule.then), call.value))
             + Len(evaluations(Unless(call.rule.condition, call.rule.then), call.value)) = 1

C23_Witness ==
    /\ Returned /\ call.rule.kind = "Unless"
    /\ call.rule.condition = "is_i32" /\ call.value = StringVal(EmptyString)
    /\ ThenEvaluated /\ ~ret.ok

MapTypes == {"HashMap<String, String>", "HashMap<String, i32>"}
KeyPasses(i) ==
    call.rule.key_rule.some => validate_any(call.rule.key_rule.val, call.value.entries[i].key).ok
ValuePasses(i) ==
    call.rule.value_rule.some => validate_any(call.rule.value_rule.val, call.value.entries[i].val).ok
FailingEntries == { i \in DOMAIN call.value.entries : ~(KeyPasses(i) /\ ValuePasses(i)) }
KeyEval(i) ==
    IF call.rule.key_rule.some
    THEN <<Eval(call.value.entries[i].key, "key", call.value.entries[i].key)>> ELSE <<>>
ValueEval(i) ==
    IF call.rule.value_rule.some
    THEN <<Eval(call.value.entries[i].key, "value", call.value.entries[i].val)>> ELSE <<>>
\* the evaluations of the first n entries, all of them visited in full
RECURSIVE VisitedInFull(_)
VisitedInFull(n) == IF n = 0 THEN <<>> ELSE VisitedInFull(n - 1) \o KeyEval(n) \o ValueEval(n)
ExpectedMapEvals ==
    IF FailingEntries = {} THEN VisitedInFull(Len(call.value.entries))
    ELSE LET f == CHOOSE i \in FailingEntries : \A j \in FailingEntries : i <= j
         IN VisitedInFull(f - 1) \o KeyEval(f) \o (IF KeyPasses(f) THEN ValueEval(f) ELSE <<>>)

\* C24: Map on a supported mapping passes iff every key passes the key rule
\* (when present) and every value passes the value rule (when present); it
\* evaluates, entry by entry, the key rule and then the value rule, and
\* nothing after the first failure; with no rule at all it passes without
\* evaluating anything.
C24_MapFailsFast ==
    (Returned /\ call.rule.kind = "Map" /\ call.value.ty \in MapTypes) =>
        /\ ret.ok <=> FailingEntries = {}
        /\ evals = ExpectedMapEvals
        /\ (~call.rule.key_rule.some /\ ~call.rule.value_rule.some) => (ret = RuleOk /\ evals = <<>>)

C24_Witness ==
    /\ Returned /\ call.rule = Map(Some(Required), Some(Required))
    /\ call.value.ty \in MapTypes
    /\ Len(call.value.entries) = 2
    /\ KeyPasses(1) /\ ~ValuePasses(1)
    /\ Len(evals) = 2 /\ evals[1].part = "key" /\ evals[2].part = "value"
    /\ ~ret.ok

(***************************************************************************)
(* The chain of one field (checked under Spec).                            *)
(***************************************************************************)
LogOf(f) == SelectSeq(log, LAMBDA e : e.field = f)
NoFailingRequired(f) == \A i \in DOMAIN log : log[i].field = f => ~FailedRequired(i)
FailureMsgs(entries) == [i \in DOMAIN SelectSeq(entries, LAMBDA e : ~e.ok) |->
                           SelectSeq(entries, LAMBDA e : ~e.ok)[i].msg]
FieldErrors(f) == IF f \in DOMAIN errors THEN errors[f] ELSE <<>>
ChainInOrder(fi) ==
    LET f == struct[fi].name
    IN /\ Len(LogOf(f)) = Len(struct[fi].attrs)
       /\ \A di \in DOMAIN struct[fi].attrs : LogOf(f)[di].di = di
       /\ FieldErrors(f) = FailureMsgs(LogOf(f))

\* C25: when the pass has returned, a field with no failing required check
\* has had each of its declarations evaluated exactly once, in declaration
\* order, and its message list is the failing checks' messages in that order.
C25_ChainInDeclarationOrder ==
    pc = "done" =>
        \A fi \in DOMAIN struct : NoFailingRequired(struct[fi].name) => ChainInOrder(fi)

(***************************************************************************)
(* Pattern (checked under SpecRules).                                      *)
(***************************************************************************)
PatternResult(i) == validate_any(call.rule.rules[i], call.value)
FailingRules == { i \in DOMAIN call.rule.rules : ~PatternResult(i).ok }
FirstFailingRule == CHOOSE i \in FailingRules : \A j \in FailingRules : i <= j

\* C26: Pattern::validate evaluates its rules in list order; it returns the
\* error of the first failing rule, unchanged, without evaluating the rules
\* after it, and Ok exactly when every rule passes (an empty list included).
C26_PatternFirstFailure ==
    (Returned /\ call.rule.kind = "Pattern") =>
        /\ \A i \in DOMAIN evals : evals[i] = Eval(i - 1, "rule", call.value)
        /\ ret.ok <=> FailingRules = {}
        /\ IF FailingRules = {}
           THEN ret = RuleOk /\ Len(evals) = Len(call.rule.rules)
           ELSE ret = PatternResult(FirstFailingRule) /\ Len(evals) = FirstFailingRule

C26_Witness ==
    /\ Returned /\ call.rule = Pattern(<<Required, Positive, Email(FALSE)>>)
    /\ call.value = StringVal(OkStr)
    /\ Len(evals) = 2 /\ ret = PatternResult(2) /\ ~PatternResult(3).ok
    /\ PatternResult(3) # PatternResult(2)

(***************************************************************************)
(* Further properties of merge (checked under SpecError).                  *)
(***************************************************************************)
OtherFieldsKept(e) ==
    /\ DOMAIN mlast.out.errors = DOMAIN e.errors \cup {"_"}
    /\ \A f \in DOMAIN e.errors \ {"_"} : mlast.out.errors[f] = e.errors[f]

\* C27: merging a single message m with a field-keyed model e puts m under
\* "_" in operand order: before e's "_" messages in merge(Single m, e),
\* after them in merge(e, Single m); the other fields of e are unchanged.
C27_SingleIntoMultipleInOrder ==
    /\ (mlast.done /\ ev.a.shape = "Single" /\ ev.b.shape = "Multiple") =>
           /\ mlast.out.shape = "Multiple"
           /\ OtherFieldsKept(ev.b)
           /\ mlast.out.errors["_"] = <<ev.a.msg>> \o MsgsOf(ev.b, "_")
    /\ (mlast.done /\ ev.a.shape = "Multiple" /\ ev.b.shape = "Single") =>
           /\ mlast.out.shape = "Multiple"
           /\ OtherFieldsKept(ev.a)
           /\ mlast.out.errors["_"] = MsgsOf(ev.a, "_") \o <<ev.b.msg>>

\* the messages a model holds under a field, a single message counting as "_"
Under(e, f) ==
    IF e.shape = "Single" THEN (IF f = "_" THEN <<e.msg>> ELSE <<>>) ELSE MsgsOf(e, f)
Occurrences(seq, m) == Cardinality({ i \in DOMAIN seq : seq[i] = m })

\* C28: merge neither drops nor duplicates a message: merge(a, b) holds as
\* many messages as a and b together, and under every field each message as
\* often as a and b hold it under that field ("_" for a single message).
C28_MergeKeepsEveryMessage ==
    mlast.done =>
        /\ mlast.out.shape = "Multiple"
        /\ MessageCount(mlast.out) = MessageCount(ev.a) + MessageCount(ev.b)
        /\ DOMAIN mlast.out.errors \subseteq ErrFields
        /\ \A f \in ErrFields : \A m \in ErrMsgs :
               Occurrences(Under(mlast.out, f), m)
                   = Occurrences(Under(ev.a, f), m) + Occurrences(Under(ev.b, f), m)

C28_Witness ==
    /\ mlast.done /\ ev.a.shape = "Multiple" /\ ev.b.shape = "Multiple"
    /\ Cardinality(DOMAIN ev.b.errors) = 2
    /\ DOMAIN ev.a.errors \cap DOMAIN ev.b.errors # {}
    /\ MessageCount(mlast.out) = 3

(***************************************************************************)
(* Two declarations under one synthesized name (checked under SpecChain).  *)
(***************************************************************************)
DeclOf(e) == FieldOf(e.field).attrs[e.di]
IsMinOfInt(decl) ==
    /\ decl.name = "min"
    /\ \/ decl.form = "NameValue" /\ decl.lit.kind = "Int"
       \/ decl.form = "List" /\ Len(decl.nested) = 1 /\ decl.nested[1].lit.kind = "Int"
OwnRule(decl) ==
    Min("i32", base10_parse(IF decl.form = "NameValue" THEN decl.lit ELSE decl.nested[1].lit))

\* C29: in the generated pass every registration is immediately followed by
\* the lookup of the same name for the same declaration, and a min check is
\* evaluated with the value of its own declaration, also when another
\* declaration of the field registers a different value under that name.
C29_OwnParameters ==
    Expanded =>
        /\ \A k \in AddRules :
               /\ k + 1 \in Checks
               /\ plan[k + 1].name = plan[k].name
               /\ plan[k + 1].field = plan[k].field /\ plan[k + 1].di = plan[k].di
        /\ \A i \in DOMAIN log : IsMinOfInt(DeclOf(log[i])) =>
               /\ log[i].found
               /\ log[i].rule = OwnRule(DeclOf(log[i]))
               /\ log[i].ok = validate_any(OwnRule(DeclOf(log[i])), FieldOf(log[i].field).value).ok

C29_Witness ==
    /\ pc = "done"
    /\ FieldOf("price").value = I32Val(3)
    /\ FieldOf("price").attrs
          = <<List("min", <<NestedLit(LitInt(Digits1))>>), NameValue("min", LitInt(Digits5))>>
    /\ Len(log) = 2 /\ log[1].name = log[2].name
    /\ log[1].ok /\ ~log[2].ok
    /\ get_rule(validator, "price_min").rule = Min("i32", 5)

(***************************************************************************)
(* Condition lists (checked under SpecRules).                              *)
(***************************************************************************)
TrueConditions == Cardinality({ k \in DOMAIN call.rule.conditions : call.rule.conditions[k] })
Requires ==
    IF call.rule.kind = "RequiredIfAny" THEN TrueConditions >= 1
    ELSE TrueConditions = Len(call.rule.conditions)

\* C30: RequiredIfAny requires the value iff at least one of its conditions
\* is true and RequiredIfAll iff all of them are; so with an empty list
\* RequiredIfAny returns Ok for every value and RequiredIfAll returns what
\* Required returns.
C30_EmptyConditionLists ==
    (Returned /\ call.rule.kind \in {"RequiredIfAny", "RequiredIfAll"}) =>
        /\ ret = IF Requires THEN Required_validate_any(call.value) ELSE RuleOk
        /\ Len(call.rule.conditions) = 0 =>
               ret = IF call.rule.kind = "RequiredIfAny" THEN RuleOk
                     ELSE Required_validate_any(call.value)

C30_Witness ==
    /\ Returned
    /\ call = [rule |-> RequiredIfAll(<<>>), value |-> StringVal(EmptyString)]
    /\ ret = RuleErr("Value is required")
    /\ validate_any(RequiredIfAny(<<>>), call.value) = RuleOk
====
